---- MODULE Spec2Model ----
(***************************************************************************)
(* The session relay of src/api/server.ts (initializeMcpApiHandler):       *)
(*   - the /sse branch (lines 397-516): one long-lived session per stream, *)
(*     subscribed to requests:{sessionId}, replaying relayed messages into *)
(*     the protocol handler (handleMessage, lines 438-479);                *)
(*   - the /message branch (lines 517-565): one outbound relay call per    *)
(*     request, subscribed to responses:{sessionId}:{requestId};           *)
(*   - the broker (redis pub/sub): a topic delivers to the listeners       *)
(*     registered at publish time and retains nothing;                     *)
(*   - the synthetic request (createFakeIncomingMessage, lines 583-617)    *)
(*     that handleMessage builds from the payload of a relayed message.    *)
(* Every await of the source is a step boundary: the code up to an await   *)
(* is one action, the continuation after it is another.  A publish is      *)
(* routed to the listeners of its topic in the step that issues it.        *)
(***************************************************************************)
EXTENDS Integers, Sequences, FiniteSets, TLC

\* Bounds of the model: the outbound calls of a run (the requestIds drawn at
\* line 531), and the malformed payloads a session is sent.
MaxCalls == 1
MaxMalformed == 1

\* Bound of the model: the length of the body of a relayed request.
MaxBody == 2

\* The session ids minted by the /sse streams of a run (line 401), and one
\* that no stream ever minted.
Sessions == {"s1"}
UnknownSession == "s0"

VARIABLES
    sess,       \* sess[s]: the /sse handler invocation of session s
    call,       \* call[c]: the /message handler invocation c
    task,       \* task[c]: the handleMessage invocation replaying call c's message
    resp,       \* resp[c]: what was published on responses:{sid}:{requestId of c}
    pubSeq,     \* the calls in the order their message was published
    respSeq,    \* the calls in the order their response was published
    fake        \* one relayed message on its way from /message into the handler

vars == <<sess, call, task, resp, pubSeq, respSeq, fake>>

----------------------------------------------------------------------------
(* Values *)

\* No HTTP reply sent yet / no response published yet.
NoReply == [status |-> 0, body |-> "<none>"]

\* lines 558-559: res.statusCode = 408; res.end("Request timed out")
TimeoutReply_Ok == [status |-> 200, body |-> "Request timed out"]
TimeoutReply == [status |-> 408, body |-> "Request timed out"]

\* lines 527-528: res.statusCode = 400; res.end("No sessionId provided")
BadRequestReply == [status |-> 400, body |-> "No sessionId provided"]

\* lines 451-460: the synthetic response sink records the last value passed to
\* writeHead and the last value passed to end, starting from 100 and "".
RECURSIVE Capture(_, _)
Capture(acc, writes) ==
    IF writes = <<>> THEN acc
    ELSE LET w == Head(writes) IN
         Capture(IF w.op = "writeHead" THEN [acc EXCEPT !.status = w.status]
                                       ELSE [acc EXCEPT !.body = w.body],
                 Tail(writes))

SyntheticRes == [status |-> 100, body |-> ""]

\* What the opaque protocol handler (transport.handlePostMessage, line 461)
\* may do with the sink before it returns: nothing, a status and a body, or
\* a status and a body written over by a second status and a second body.
HandlerWrites ==
    { <<>>,
      << [op |-> "writeHead", status |-> 202], [op |-> "end", body |-> "Accepted"] >>,
      << [op |-> "writeHead", status |-> 400], [op |-> "end", body |-> "Bad"],
         [op |-> "writeHead", status |-> 202], [op |-> "end", body |-> "Accepted"] >> }

\* The build's outcome when the response listener reads `timeout` (line 542)
\* before `const timeout` (line 556) is initialised: a ReferenceError (the
\* temporal dead zone of an ES2015+ build) or undefined (a down-levelled `var`).
TdzOutcomes == {"throw", "undefined"}

\* handleMessage is an async function handed to redis.subscribe (line 488); the
\* promise it returns is awaited by nobody and has no catch.  A rejection is
\* unhandled: the runtime either reports it and goes on, or ends the process
\* (Node's default since v15), and the session dies with it.
UnhandledRejection == {"ignored", "terminate"}

----------------------------------------------------------------------------
(* The relayed message and the synthetic request built from it *)

\* The requests that reach line 532: any method (the /message branch does not
\* look at it), a url with a sessionId, the headers and the body that
\* getRawBody decoded (a string, empty when the request has no body).
Bodies == UNION { [1..n -> {"a", "b"}] : n \in 0..MaxBody }

Requests ==
    [ method  : {"POST", "GET"},
      url     : {"/message?sessionId=s1", "/message?sessionId=s0"},
      headers : { <<>>,
                  << <<"content-type", "application/json">> >>,
                  << <<"content-type", "application/json">>, <<"accept", "*/*">> >> },
      body    : Bodies ]

\* lines 532-538: the relayed message (req.url and req.method are strings,
\* so `|| ""` leaves them as they are).
SerializedRequest(req, requestId) ==
    [ requestId |-> requestId,
      url       |-> req.url,
      method    |-> req.method,
      body      |-> req.body,
      headers   |-> req.headers ]

\* line 553, JSON.stringify: the text lists the properties of the object, in
\* the order they were written, as key/value pairs.
JsonStringify(o) ==
    LET keys == <<"requestId", "url", "method", "body", "headers">>
        kept == SelectSeq(keys, LAMBDA k : k \in DOMAIN o)
    IN [i \in 1..Len(kept) |-> <<kept[i], o[kept[i]]>>]

\* line 441, JSON.parse: the object has the properties that the text lists.
JsonParse(text) ==
    [k \in {text[i][1] : i \in 1..Len(text)} |->
        text[CHOOSE i \in 1..Len(text) : text[i][1] = k][2]]

\* lines 444-449: the options handed to createFakeIncomingMessage; a property
\* the request does not have is undefined, which is as good as absent.
Options(request) ==
    [k \in {"method", "url", "headers", "body"} \cap DOMAIN request |-> request[k]]

\* lines 591-599: `if (body)` is false for null (the default of an undefined
\* body) and for the empty string.
Truthy(options) == "body" \in DOMAIN options /\ options.body # <<>>

\* lines 583-617: the defaults of the destructuring apply to undefined
\* properties; the body is pushed on the stream, followed by the
\* end-of-stream mark, when it is truthy.
createFakeIncomingMessage(options) ==
    [ method  |-> IF "method" \in DOMAIN options THEN options.method ELSE "GET",
      url     |-> IF "url" \in DOMAIN options THEN options.url ELSE "/",
      headers |-> IF "headers" \in DOMAIN options THEN options.headers ELSE <<>>,
      chunks  |-> IF Truthy(options) THEN <<options.body>> ELSE <<>>,
      ended   |-> Truthy(options) ]

\* No synthetic request built (yet).
NoReq == [method |-> "", url |-> "", headers |-> <<>>, chunks |-> <<>>, ended |-> FALSE]

\* The relay that is not followed message by message.
NoFake ==
    [ stage |-> "off",       \* off, request, wire, built
      msg   |-> SerializedRequest(
                    [method |-> "", url |-> "", headers |-> <<>>, body |-> <<>>], 0),
      wire  |-> <<>>,        \* the JSON text published on requests:{sid}
      req   |-> NoReq,       \* the synthetic request built from it
      read  |-> <<>>,        \* what the reader of its stream has got
      eof   |-> FALSE ]      \* the stream has emitted "end"

----------------------------------------------------------------------------
(* The /sse branch: state of one session *)

SessInit ==
    [ pc        |-> "idle",      \* idle, subscribing, connecting, waiting, cleanup, closed, crashed,
                                 \* subscribeFailed, connectFailed, unsubscribeFailed
      subscribed|-> FALSE,       \* requests:{sessionId} has handleMessage as listener
      timer     |-> "unset",     \* the deadline timer: unset, armed, fired, cleared
      interval  |-> FALSE,       \* the 100 ms log-flush interval is armed
      resolved  |-> "none",      \* what waitPromise resolved with
      reqClosed |-> FALSE,       \* the stream's request emitted "close"
      onclosed  |-> FALSE,       \* server.server.onclose was invoked
      inServers |-> FALSE,       \* the server is in the `servers` array
      cleanups  |-> 0,           \* how many times cleanup() started
      res       |-> NoReply,     \* the stream's terminal status, once res.end() ran
      badSeen   |-> 0,           \* malformed payloads delivered to handleMessage
      crash     |-> "none" ]     \* none, decode, handler: what ended the process

\* line 511: req.on("close", ...) is registered after the subscription exists
\* and is never removed.
CloseListener(r) ==
    r.pc \in {"connecting", "waiting", "cleanup", "closed", "connectFailed", "unsubscribeFailed"}

\* line 513: server.connect(transport) has resolved.
Connected(r) == r.pc \in {"waiting", "cleanup", "closed", "unsubscribeFailed"}

\* A trigger that runs the cleanup itself instead of resolving the promise.
Resolve_RunsCleanup(r, reason) ==
    [r EXCEPT !.resolved = reason, !.interval = FALSE, !.cleanups = @ + 1]

\* lines 493-501, 511: resolve(...) / resolveTimeout(...) settle waitPromise;
\* a promise settles once, later calls change nothing.
Resolve(r, reason) ==
    IF r.resolved = "none" THEN [r EXCEPT !.resolved = reason] ELSE r

\* lines 503-506: cleanup() up to its await.
CleanupBegin(r) ==
    [r EXCEPT !.timer = IF @ = "armed" THEN "cleared" ELSE @,
              !.interval = FALSE,
              !.cleanups = @ + 1,
              !.pc = "cleanup"]

\* lines 506-509: cleanup() after redis.unsubscribe resolved.
CleanupEnd(r) ==
    [r EXCEPT !.subscribed = FALSE,
              !.res = [status |-> 200, body |-> ""],
              !.pc = "closed"]

\* The process of the session ends: its timers, its registry and its broker
\* connection go with it, the stream is cut without a terminal status.
Terminate(r, cause) ==
    [SessInit EXCEPT !.pc = "crashed", !.crash = cause, !.badSeen = r.badSeen,
                     !.cleanups = r.cleanups]

Reject(r, cause, outcome) ==
    IF outcome = "terminate" THEN Terminate(r, cause) ELSE r

----------------------------------------------------------------------------
(* The /message branch: state of one outbound relay call *)

CallInit ==
    [ pc        |-> "idle",       \* idle, subscribing, publishing, waiting, done
      sid       |-> "",           \* the sessionId of the query string ("": none given)
      respSub   |-> FALSE,        \* responses:{sid}:{requestId} has the listener
      hadSub    |-> FALSE,        \* requests:{sid} had a listener when the message was published
      timer     |-> "undeclared", \* the 10 s timer: undeclared, armed, cleared, firing, fired
      resClosed |-> FALSE,        \* the response emitted "close"
      reply     |-> NoReply,      \* the HTTP reply the caller got
      cb        |-> "no",         \* the response listener: no, wrote, threw
      heard     |-> 0,            \* the requestId whose response the listener was handed (0: none)
      unsubs    |-> 0 ]           \* redis.unsubscribe calls on the responses topic

\* res.end on a response: the first end on a live connection is the reply.
End(r, m) ==
    IF r.reply = NoReply /\ ~r.resClosed THEN [r EXCEPT !.reply = m] ELSE r

ClearTimeout(r) == [r EXCEPT !.timer = IF @ = "armed" THEN "cleared" ELSE @]

\* lines 541-549: the listener of responses:{sid}:{requestId}.
OnResponse(r, m, tdz) ==
    IF r.timer = "undeclared" /\ tdz = "throw"
    THEN [r EXCEPT !.cb = "threw"]
    ELSE [End(ClearTimeout(r), m) EXCEPT !.cb = "wrote"]

\* The broker delivers a publish on responses:{sid}:{requestId} to the
\* listener registered for it, and drops it when there is none.
DeliverResponse(r, m, tdz) ==
    IF r.respSub THEN OnResponse(r, m, tdz) ELSE r

\* A response topic that names the session only.
ResponseTopic_NoRequestId(sessionId, requestId) == <<"responses", sessionId>>

\* lines 464, 541: `responses:${sessionId}:${requestId}`.  The requestId of
\* call c (crypto.randomUUID(), line 531) is c: no two calls share one.
ResponseTopic(sessionId, requestId) == <<"responses", sessionId, requestId>>

----------------------------------------------------------------------------
\* The state after initializeMcpApiHandler (lines 269-290) with n outbound
\* calls to come: no session opened, no call started.
InitWith(n) ==
    /\ sess = [s \in Sessions |-> SessInit]
    /\ call = [c \in 1..n |-> CallInit]
    /\ task = [c \in 1..n |-> "none"]   \* none, handling, done, failed, killed
    /\ resp = [c \in 1..n |-> NoReply]
    /\ pubSeq = <<>>
    /\ respSeq = <<>>

Init == InitWith(MaxCalls) /\ fake = NoFake

\* One outbound call more than Init has, for the claims about several
\* messages of one session.
InitPair == InitWith(MaxCalls + 1) /\ fake = NoFake

Calls == DOMAIN call

\* The handleMessage invocations of session s that the end of its process cuts.
KillTasks(s, outcome) ==
    [c \in Calls |->
        IF outcome = "terminate" /\ call[c].sid = s /\ task[c] = "handling"
        THEN "killed" ELSE task[c]]

----------------------------------------------------------------------------
(* /sse, lines 397-516 *)

\* lines 400-488: transport and server are built, the server is pushed on
\* `servers`, the log interval is armed, redis.subscribe is awaited.
SseOpen(s) ==
    /\ sess[s].pc = "idle"
    /\ sess' = [sess EXCEPT ![s] = [@ EXCEPT !.pc = "subscribing",
                                             !.inServers = TRUE,
                                             !.interval = TRUE]]
    /\ UNCHANGED <<call, task, resp, pubSeq, respSeq, fake>>

\* lines 488-513: the subscription exists; the deadline timer is armed, the
\* disconnect listener registered, server.connect(transport) is awaited.
SseSubscribed(s) ==
    /\ sess[s].pc = "subscribing"
    /\ sess' = [sess EXCEPT ![s] = [@ EXCEPT !.pc = "connecting",
                                             !.subscribed = TRUE,
                                             !.timer = "armed"]]
    /\ UNCHANGED <<call, task, resp, pubSeq, respSeq, fake>>

\* lines 513-514: connect resolved, waitPromise is awaited.
SseConnected(s) ==
    /\ sess[s].pc = "connecting"
    /\ sess' = [sess EXCEPT ![s] = [@ EXCEPT !.pc = "waiting"]]
    /\ UNCHANGED <<call, task, resp, pubSeq, respSeq, fake>>

\* lines 495-500: the deadline timer fires.
SseDeadline(s) ==
    /\ sess[s].timer = "armed"
    /\ sess' = [sess EXCEPT ![s] =
                   Resolve([@ EXCEPT !.timer = "fired"], "max duration reached")]
    /\ UNCHANGED <<call, task, resp, pubSeq, respSeq, fake>>

\* line 511: the stream's request emits "close" (the client hung up, or the
\* stream ended); the listener, when registered, resolves waitPromise.
SseReqClose(s) ==
    /\ sess[s].pc \notin {"idle", "crashed"}
    /\ ~sess[s].reqClosed
    /\ sess' = [sess EXCEPT ![s] =
                   IF CloseListener(@)
                   THEN Resolve([@ EXCEPT !.reqClosed = TRUE], "client hang up")
                   ELSE [@ EXCEPT !.reqClosed = TRUE]]
    /\ UNCHANGED <<call, task, resp, pubSeq, respSeq, fake>>

\* lines 419-422: the protocol handler signals its closure.
SseOnClose(s) ==
    /\ Connected(sess[s])
    /\ ~sess[s].onclosed
    /\ sess' = [sess EXCEPT ![s] = [@ EXCEPT !.onclosed = TRUE, !.inServers = FALSE]]
    /\ UNCHANGED <<call, task, resp, pubSeq, respSeq, fake>>

\* lines 514-516, 503-506: waitPromise resolved, cleanup() runs to its await.
SseCleanup(s) ==
    /\ sess[s].pc = "waiting"
    /\ sess[s].resolved # "none"
    /\ sess' = [sess EXCEPT ![s] = CleanupBegin(@)]
    /\ UNCHANGED <<call, task, resp, pubSeq, respSeq, fake>>

\* lines 506-509: redis.unsubscribe resolved, the stream is ended.
SseCleanupDone(s) ==
    /\ sess[s].pc = "cleanup"
    /\ sess' = [sess EXCEPT ![s] = CleanupEnd(@)]
    /\ UNCHANGED <<call, task, resp, pubSeq, respSeq, fake>>

\* The broker fails an operation of the /sse branch.  None of the three
\* awaits is inside a try: the rejection leaves mcpApiHandler through its
\* caller and nothing after the await runs.

\* line 488: redis.subscribe rejects.
SseSubscribeFails(s) ==
    /\ sess[s].pc = "subscribing"
    /\ sess' = [sess EXCEPT ![s] = [@ EXCEPT !.pc = "subscribeFailed"]]
    /\ UNCHANGED <<call, task, resp, pubSeq, respSeq, fake>>

\* line 513: server.connect(transport) rejects.
SseConnectFails(s) ==
    /\ sess[s].pc = "connecting"
    /\ sess' = [sess EXCEPT ![s] = [@ EXCEPT !.pc = "connectFailed"]]
    /\ UNCHANGED <<call, task, resp, pubSeq, respSeq, fake>>

\* line 506: redis.unsubscribe rejects inside cleanup(); the listener stays.
SseUnsubscribeFails(s) ==
    /\ sess[s].pc = "cleanup"
    /\ sess' = [sess EXCEPT ![s] = [@ EXCEPT !.pc = "unsubscribeFailed"]]
    /\ UNCHANGED <<call, task, resp, pubSeq, respSeq, fake>>

----------------------------------------------------------------------------
(* handleMessage, lines 438-479 *)

\* A payload that is no JSON is published on requests:{s} by some publisher
\* while the session is subscribed (published to no subscriber it is dropped
\* and changes nothing).  line 441: JSON.parse throws inside handleMessage.
PublishMalformed(s) ==
    /\ sess[s].subscribed
    /\ sess[s].badSeen < MaxMalformed
    /\ \E o \in UnhandledRejection :
          /\ sess' = [sess EXCEPT ![s] = Reject([@ EXCEPT !.badSeen = @ + 1], "decode", o)]
          /\ task' = KillTasks(s, o)
    /\ UNCHANGED <<call, resp, pubSeq, respSeq, fake>>

\* lines 461-469: the protocol handler returns, the captured status and body
\* are published on responses:{sid}:{requestId}, with the session's own id
\* and the requestId of the message; the broker hands the payload to every
\* listener of that topic.
HandlerReturn(c) ==
    /\ task[c] = "handling"
    /\ \E w \in HandlerWrites, tdz \in TdzOutcomes :
          LET m == Capture(SyntheticRes, w)
              topic == ResponseTopic(call[c].sid, c)
          IN
          /\ resp' = [resp EXCEPT ![c] = m]
          /\ call' = [d \in Calls |->
                         IF call[d].respSub /\ ResponseTopic(call[d].sid, d) = topic
                         THEN [DeliverResponse(call[d], m, tdz) EXCEPT !.heard = c]
                         ELSE call[d]]
    /\ task' = [task EXCEPT ![c] = "done"]
    /\ respSeq' = Append(respSeq, c)
    /\ UNCHANGED <<sess, pubSeq, fake>>

\* line 461: the protocol handler throws; nothing is published.
HandlerThrow(c) ==
    /\ task[c] = "handling"
    /\ \E o \in UnhandledRejection :
          /\ sess' = [sess EXCEPT ![call[c].sid] = Reject(@, "handler", o)]
          /\ task' = [KillTasks(call[c].sid, o) EXCEPT ![c] = "failed"]
    /\ UNCHANGED <<call, resp, pubSeq, respSeq, fake>>

----------------------------------------------------------------------------
(* /message, lines 517-565 *)

\* The 400 written without the `return` of line 529: the handler goes on.
MsgBadRequest_NoReturn(c) ==
    /\ call[c].pc = "idle"
    /\ \A d \in Calls : d < c => call[d].pc # "idle"
    /\ call' = [call EXCEPT ![c] = [End(@, BadRequestReply) EXCEPT !.pc = "subscribing"]]
    /\ UNCHANGED <<sess, task, resp, pubSeq, respSeq, fake>>

\* lines 525-530: no sessionId in the query string; the 400 is written and
\* the handler returns.
MsgBadRequest(c) ==
    /\ call[c].pc = "idle"
    /\ \A d \in Calls : d < c => call[d].pc # "idle"
    /\ call' = [call EXCEPT ![c] = [End(@, BadRequestReply) EXCEPT !.pc = "done"]]
    /\ UNCHANGED <<sess, task, resp, pubSeq, respSeq, fake>>

\* lines 520-541: the body is read, a requestId drawn, redis.subscribe awaited.
\* (Calls are numbered in the order they start.)
MsgStart(c, sid) ==
    /\ call[c].pc = "idle"
    /\ \A d \in Calls : d < c => call[d].pc # "idle"
    /\ call' = [call EXCEPT ![c] = [@ EXCEPT !.pc = "subscribing", !.sid = sid]]
    /\ UNCHANGED <<sess, task, resp, pubSeq, respSeq, fake>>

\* The broker hands a publish on requests:{sid} to handleMessage when the
\* session is subscribed, and drops it otherwise.
HasSubscriber(sid) == sid \in Sessions /\ sess[sid].subscribed

\* A subscription that is only set up once the message is out.
MsgSubscribed_PublishFirst(c) ==
    /\ call[c].pc = "subscribing"
    /\ call' = [call EXCEPT ![c] = [@ EXCEPT !.pc = "publishing",
                                             !.hadSub = HasSubscriber(call[c].sid)]]
    /\ task' = [task EXCEPT ![c] = IF HasSubscriber(call[c].sid) THEN "handling" ELSE "none"]
    /\ pubSeq' = Append(pubSeq, c)
    /\ UNCHANGED <<sess, resp, respSeq, fake>>

\* lines 541-553: the subscription to responses:{sid}:{requestId} exists; the
\* serialized request is published on requests:{sid}, the publish awaited.
MsgSubscribed(c) ==
    /\ call[c].pc = "subscribing"
    /\ call' = [call EXCEPT ![c] = [@ EXCEPT !.pc = "publishing",
                                             !.respSub = TRUE,
                                             !.hadSub = HasSubscriber(call[c].sid)]]
    /\ task' = [task EXCEPT ![c] = IF HasSubscriber(call[c].sid) THEN "handling" ELSE "none"]
    /\ pubSeq' = Append(pubSeq, c)
    /\ UNCHANGED <<sess, resp, respSeq, fake>>

\* lines 553-565: the publish resolved; the 10 s timer is armed and the
\* listener of the response's "close" registered.
MsgPublished(c) ==
    /\ call[c].pc = "publishing"
    /\ call' = [call EXCEPT ![c] = [@ EXCEPT !.pc = "waiting", !.timer = "armed"]]
    /\ UNCHANGED <<sess, task, resp, pubSeq, respSeq, fake>>

\* lines 556-557: the 10 s timer fires, redis.unsubscribe is awaited.
MsgTimeout(c) ==
    /\ call[c].timer = "armed"
    /\ call' = [call EXCEPT ![c] = [@ EXCEPT !.timer = "firing", !.unsubs = @ + 1]]
    /\ UNCHANGED <<sess, task, resp, pubSeq, respSeq, fake>>

\* lines 557-559: the unsubscribe resolved, the 408 is written.
MsgTimeoutDone(c) ==
    /\ call[c].timer = "firing"
    /\ call' = [call EXCEPT ![c] =
                   [End(@, TimeoutReply) EXCEPT !.timer = "fired", !.respSub = FALSE]]
    /\ UNCHANGED <<sess, task, resp, pubSeq, respSeq, fake>>

\* lines 562-565: the response emits "close" (the caller hung up, or the reply
\* is complete); the listener, when registered, clears the timer and
\* unsubscribes.  Before line 562 has run nobody listens; a close that early
\* is taken from the publish on, where it has the same effect.
MsgResClose(c) ==
    /\ call[c].pc \in {"publishing", "waiting"}
    /\ ~call[c].resClosed
    /\ call' = [call EXCEPT ![c] =
                   IF @.pc = "waiting"
                   THEN [ClearTimeout(@) EXCEPT !.resClosed = TRUE,
                                                !.unsubs = @ + 1,
                                                !.respSub = FALSE]
                   ELSE [@ EXCEPT !.resClosed = TRUE]]
    /\ UNCHANGED <<sess, task, resp, pubSeq, respSeq, fake>>

----------------------------------------------------------------------------
(* One relayed message, from line 532 to the handler's read of its body *)

\* line 553: the relayed message is serialized and published.
FakePublish ==
    /\ fake.stage = "request"
    /\ fake' = [fake EXCEPT !.stage = "wire", !.wire = JsonStringify(fake.msg)]
    /\ UNCHANGED <<sess, call, task, resp, pubSeq, respSeq>>

\* lines 441-449: handleMessage parses the payload and builds the synthetic
\* request from its method, url, headers and body.
FakeBuild ==
    /\ fake.stage = "wire"
    /\ fake' = [fake EXCEPT
                   !.stage = "built",
                   !.req = createFakeIncomingMessage(Options(JsonParse(fake.wire)))]
    /\ UNCHANGED <<sess, call, task, resp, pubSeq, respSeq>>

\* lines 611-614: the protocol handler reads the stream; a "data" event
\* hands it the next chunk.
FakeRead ==
    /\ fake.stage = "built"
    /\ fake.req.chunks # <<>>
    /\ fake' = [fake EXCEPT !.read = @ \o Head(fake.req.chunks),
                            !.req = [@ EXCEPT !.chunks = Tail(@)]]
    /\ UNCHANGED <<sess, call, task, resp, pubSeq, respSeq>>

\* The stream emits "end" once it is drained and its end was pushed.
FakeEnd ==
    /\ fake.stage = "built"
    /\ fake.req.chunks = <<>>
    /\ fake.req.ended
    /\ ~fake.eof
    /\ fake' = [fake EXCEPT !.eof = TRUE]
    /\ UNCHANGED <<sess, call, task, resp, pubSeq, respSeq>>

\* The requests of the run, each relayed with the requestId 1.
InitBuilder ==
    /\ InitWith(0)
    /\ \E r \in Requests :
          fake = [NoFake EXCEPT !.stage = "request", !.msg = SerializedRequest(r, 1)]

NextBuilder ==
    \/ FakePublish
    \/ FakeBuild
    \/ FakeRead
    \/ FakeEnd

SpecBuilder == InitBuilder /\ [][NextBuilder]_vars

----------------------------------------------------------------------------
Next ==
    \/ \E s \in Sessions : SseOpen(s)
    \/ \E s \in Sessions : SseSubscribed(s)
    \/ \E s \in Sessions : SseConnected(s)
    \/ \E s \in Sessions : SseDeadline(s)
    \/ \E s \in Sessions : SseReqClose(s)
    \/ \E s \in Sessions : SseOnClose(s)
    \/ \E s \in Sessions : SseCleanup(s)
    \/ \E s \in Sessions : SseCleanupDone(s)
    \/ \E s \in Sessions : PublishMalformed(s)
    \/ \E c \in Calls : HandlerReturn(c)
    \/ \E c \in Calls : HandlerThrow(c)
    \/ \E c \in Calls : MsgBadRequest(c)
    \/ \E c \in Calls, sid \in Sessions \cup {UnknownSession} : MsgStart(c, sid)
    \/ \E c \in Calls : MsgSubscribed(c)
    \/ \E c \in Calls : MsgPublished(c)
    \/ \E c \in Calls : MsgTimeout(c)
    \/ \E c \in Calls : MsgTimeoutDone(c)
    \/ \E c \in Calls : MsgResClose(c)

Spec == Init /\ [][Next]_vars

SpecPair == InitPair /\ [][Next]_vars

\* The same program with a broker whose operations on requests:{sid} may fail.
NextFaults ==
    \/ Next
    \/ \E s \in Sessions : SseSubscribeFails(s)
    \/ \E s \in Sessions : SseConnectFails(s)
    \/ \E s \in Sessions : SseUnsubscribeFails(s)

SpecFaults == Init /\ [][NextFaults]_vars

----------------------------------------------------------------------------
(* Properties *)

\* a comes before b in seq (both occur at most once).
Before(seq, a, b) ==
    \E i, j \in 1..Len(seq) : i < j /\ seq[i] = a /\ seq[j] = b

InSeq(seq, a) == \E i \in 1..Len(seq) : seq[i] = a

\* The message of call c has been published on requests:{sid}.
Published(c) == call[c].pc \in {"publishing", "waiting"}

\* The caller of c hung up before any reply was written.
HungUp(c) == call[c].resClosed /\ call[c].reply = NoReply

\* C1: for every relayed message published while its session is subscribed,
\* the caller's reply is either the relayed response published on
\* responses:{sid}:{requestId} or the 408 timeout: a caller whose listener was
\* handed the response is not answered with the timeout (never both), and once
\* the timer has run its course a caller still connected has a reply (never
\* neither), whatever the order of the response listener, the continuation
\* after the publish and the timer.
C1_ReplyResponseXorTimeout ==
    \A c \in Calls : call[c].hadSub =>
        /\ call[c].reply \in {NoReply, resp[c], TimeoutReply}
        /\ call[c].cb # "no" => call[c].reply.status # 408
        /\ call[c].timer = "fired" => (call[c].reply # NoReply \/ HungUp(c))

\* C2: a message published to a sessionId with no subscriber on
\* requests:{sid} gets no response published, ever, and its caller, unless
\* it hangs up, is answered 408 when the timer has run.
C2_NoSubscriberTimesOut ==
    \A c \in Calls : (Published(c) /\ ~call[c].hadSub) =>
        /\ resp[c] = NoReply
        /\ task[c] = "none"
        /\ call[c].cb = "no"
        /\ call[c].reply # NoReply => call[c].reply.status = 408
        /\ \/ call[c].reply.status = 408
           \/ HungUp(c)
           \/ call[c].pc = "publishing"
           \/ call[c].timer \in {"armed", "firing"}

\* C2 happens: a call to a sessionId without subscriber was answered 408.
C2_Witness ==
    \E c \in Calls : Published(c) /\ ~call[c].hadSub /\ call[c].reply.status = 408

\* C3: the cleanup sequence of a session runs at most once, whatever the
\* order in which the deadline, the client's disconnect and the handler's
\* close signal fire.
C3_CleanupAtMostOnce ==
    \A s \in Sessions : sess[s].cleanups <= 1

\* C3 happens: all three triggers fired on a session whose cleanup ran.
C3_Witness ==
    \E s \in Sessions :
        /\ sess[s].cleanups = 1
        /\ sess[s].timer = "fired"
        /\ sess[s].reqClosed
        /\ sess[s].onclosed

\* C4: two messages published in sequence to one session are handled in that
\* sequence and their responses are published in that sequence.  (The broker
\* hands a message to handleMessage as it is published, so handling starts
\* in pubSeq order; respSeq is the order of the publishes at lines 463-469.)
C4_ResponsesInPublishOrder ==
    \A c, d \in Calls :
        (/\ call[c].sid = call[d].sid
         /\ call[c].hadSub /\ call[d].hadSub
         /\ Before(pubSeq, c, d)
         /\ InSeq(respSeq, c) /\ InSeq(respSeq, d))
        => Before(respSeq, c, d)

\* C5: within one session the handling of a message, from its decoding to
\* the publication of its response, never overlaps the handling of another
\* message of that session.
C5_OneAtATime ==
    \A c, d \in Calls :
        (c # d /\ call[c].sid = call[d].sid) =>
            ~(task[c] = "handling" /\ task[d] = "handling")

\* C6: the subscription to responses:{sid}:{requestId} exists before the
\* message is published on requests:{sid}: from the publication on, and so
\* whenever a response is published, the caller's subscription exists unless
\* the caller itself has unsubscribed.
C6_SubscribedBeforePublish ==
    \A c \in Calls :
        (Published(c) \/ resp[c] # NoReply) => (call[c].respSub \/ call[c].unsubs > 0)

\* C6 happens: a response was published while the call was still awaiting its
\* publish, and the call's listener received it.
C6_Witness ==
    \E c \in Calls :
        /\ resp[c] # NoReply
        /\ call[c].pc = "publishing"
        /\ call[c].cb # "no"

\* C7: an outbound call that subscribed to responses:{sid}:{requestId}
\* unsubscribes from it exactly once: never twice, and not zero times once the
\* call has ended, by timeout or by response.
C7_UnsubscribeExactlyOnce ==
    \A c \in Calls :
        /\ call[c].unsubs <= 1
        /\ (/\ call[c].pc = "waiting"
            /\ call[c].resClosed
            /\ call[c].timer \in {"cleared", "fired"}) => call[c].unsubs = 1

\* C8: a malformed payload delivered to an open session gets no response and
\* leaves the session open and subscribed, so that a valid message sent after
\* it is handled.
C8_MalformedLeavesSessionOpen ==
    \A s \in Sessions : sess[s].badSeen > 0 => sess[s].crash # "decode"

\* C9: when the protocol handler fails on a relayed message, no response is
\* published for it and the session is not terminated by the failure.
C9_HandlerErrorLeavesSessionOpen ==
    \A c \in Calls : task[c] = "failed" =>
        /\ resp[c] = NoReply
        /\ sess[call[c].sid].crash # "handler"

\* C10: a session whose deadline elapsed with no message sent ends with its
\* subscription removed, its entry removed from the registry and its stream
\* ended with a terminal status.
C10_DeadlineClosesSession ==
    \A s \in Sessions :
        (/\ sess[s].pc = "closed"
         /\ sess[s].resolved = "max duration reached"
         /\ sess[s].badSeen = 0
         /\ \A c \in Calls : ~(call[c].sid = s /\ call[c].hadSub))
        => /\ ~sess[s].subscribed
           /\ ~sess[s].inServers
           /\ sess[s].res.status = 200

\* C11: each of the three triggers closes an open session: in the step where
\* the deadline elapses, the client disconnects or the protocol handler
\* signals its closure on a session that is subscribed and not yet closing,
\* waitPromise is settled, which is what starts cleanup().
C11_EveryTriggerStartsCleanup ==
    [][\A s \in Sessions :
        (/\ sess[s].pc \in {"connecting", "waiting"}
         /\ \/ sess[s].timer = "armed" /\ sess'[s].timer = "fired"
            \/ ~sess[s].reqClosed /\ sess'[s].reqClosed
            \/ ~sess[s].onclosed /\ sess'[s].onclosed)
        => sess'[s].resolved # "none"]_vars

\* C12: when the subscription to requests:{sid} fails while the stream is
\* opened, the session is closed at once: no timer and no interval stays
\* armed, the server is not left in the registry and the stream is ended.
C12_SubscribeFailureClosesSession ==
    \A s \in Sessions : sess[s].pc = "subscribeFailed" =>
        /\ sess[s].timer # "armed"
        /\ ~sess[s].interval
        /\ ~sess[s].inServers
        /\ sess[s].res # NoReply

\* C13: a POST /message without sessionId is answered 400 and never touches
\* the broker: it subscribes to nothing, publishes nothing, arms no timer,
\* and no handleMessage and no response ever exist for it.
C13_NoSessionIdNoBroker ==
    \A c \in Calls : (call[c].pc # "idle" /\ call[c].sid = "") =>
        /\ call[c].pc = "done"
        /\ call[c].reply = [status |-> 400, body |-> "No sessionId provided"]
        /\ ~call[c].respSub
        /\ call[c].unsubs = 0
        /\ call[c].timer = "undeclared"
        /\ ~InSeq(pubSeq, c)
        /\ task[c] = "none"
        /\ resp[c] = NoReply

\* C13 happens: a call without sessionId was answered while a session was
\* subscribed and able to receive messages.
C13_Witness ==
    \E c \in Calls, s \in Sessions :
        /\ call[c].pc = "done"
        /\ call[c].sid = ""
        /\ call[c].reply.status = 400
        /\ sess[s].subscribed

\* C14: serializing a relayed message and building the synthetic request
\* from it is a round trip, for every message including one with an empty
\* body: the request's method, url and headers are those of the message, and
\* reading its stream to the point where nothing is left to read has yielded
\* exactly the body and the stream has signalled its end.
C14_RoundTrip ==
    fake.stage = "built" =>
        /\ fake.req.method = fake.msg.method
        /\ fake.req.url = fake.msg.url
        /\ fake.req.headers = fake.msg.headers
        /\ fake.req.chunks = <<>> => (fake.read = fake.msg.body /\ fake.req.ended)

\* C15: a relayed response is observed only by the outbound call that drew
\* its requestId for its sessionId: with several calls in flight, to the
\* same session or to different ones, the listener of a call is handed no
\* response but the one to its own message, and a reply that is neither the
\* 400 nor the 408 is that response.
C15_ResponseReachesOnlyItsCall ==
    \A c \in Calls :
        /\ call[c].heard \in {0, c}
        /\ call[c].reply.status \notin {0, 400, 408} => call[c].reply = resp[c]

\* C15 happens: two calls to one session were both in flight and each got its
\* own response, the two responses differing.
C15_Witness ==
    \E c, d \in Calls :
        /\ c # d
        /\ call[c].sid = call[d].sid
        /\ call[c].heard = c /\ call[d].heard = d
        /\ call[c].reply = resp[c] /\ call[d].reply = resp[d]
        /\ resp[c] # resp[d]

\* C16: an outbound call that is still waiting for its response when its
\* session has reached Closed can only end with the 408: from then on no
\* response is published for it and its reply, when it comes, is the timeout.
C16_ClosedSessionOnlyTimesOut ==
    [][\A c \in Calls :
        (/\ call[c].hadSub
         /\ sess[call[c].sid].pc = "closed"
         /\ resp[c] = NoReply
         /\ call[c].reply = NoReply)
        => /\ resp'[c] = NoReply
           /\ call'[c].reply.status \in {0, 408}]_vars

\* C17: once one close trigger has fired the others are disarmed: in a closed
\* session the deadline timer is not armed and the listener of the request's
\* "close" is no longer registered, so neither can run later.
C17_TriggersDisarmedAfterCleanup ==
    \A s \in Sessions : sess[s].pc = "closed" =>
        /\ sess[s].timer # "armed"
        /\ ~CloseListener(sess[s])

\* C18: on every exit path of the /sse handler after the subscription was
\* made (the deadline, the client's disconnect, an error while the handler
\* is bound to the stream, an error while unsubscribing) the subscription,
\* the deadline timer and the log interval are all released: no state in
\* which the handler has returned or thrown leaves one of them active.
C18_ExitReleasesResources ==
    \A s \in Sessions :
        sess[s].pc \in {"closed", "connectFailed", "unsubscribeFailed"} =>
            /\ ~sess[s].subscribed
            /\ sess[s].timer # "armed"
            /\ ~sess[s].interval

\* C19: the wait of an outbound call is cancelled by its caller's disconnect,
\* at whatever point after the subscription was made the disconnect comes,
\* the publish call included: once the handler is past the publish, a caller
\* that hung up before any reply has its 10 s timer cancelled and its
\* subscription to responses:{sid}:{requestId} removed.
C19_DisconnectCancelsWait ==
    \A c \in Calls :
        (call[c].pc = "waiting" /\ HungUp(c)) =>
            /\ call[c].timer # "armed"
            /\ ~call[c].respSub

\* C20: the protocol handler is bound to the live stream before the session
\* can be reached: whenever the subscription to requests:{sid} is active, so
\* that a message can be delivered to handleMessage, server.connect(transport)
\* has completed.
C20_ConnectedBeforeReachable ==
    \A s \in Sessions : sess[s].subscribed => Connected(sess[s])

\* The last value of the writes w with the operation op, or the default when
\* w has none.
LastWrite(w, op, field, default) ==
    LET at == {i \in 1..Len(w) : w[i].op = op}
    IN IF at = {} THEN default
       ELSE w[CHOOSE i \in at : \A j \in at : j <= i][field]

\* C21: for every relayed message whose handler invocation returned, the
\* response published carries the last status the handler passed to
\* writeHead and the last body it passed to end, and a caller whose listener
\* was handed the response, unless it had hung up, has a reply with that
\* same status and body.
C21_LastStatusAndBodyRelayed ==
    \A c \in Calls : task[c] = "done" =>
        /\ \E w \in HandlerWrites :
              resp[c] = [status |-> LastWrite(w, "writeHead", "status", 100),
                         body   |-> LastWrite(w, "end", "body", "")]
        /\ call[c].cb # "no" => (call[c].reply = resp[c] \/ HungUp(c))

\* C22: when the protocol handler returns without having written a status or
\* a body, a response is published all the same, with the status 100 and the
\* empty body the sink starts with, and the caller whose listener is handed
\* it is answered with the status 100 and not with the timeout.
C22_SilentHandlerAnswers100 ==
    \A c \in Calls : task[c] = "done" =>
        /\ resp[c] # NoReply
        /\ (resp[c] = [status |-> 100, body |-> ""] /\ call[c].cb # "no") =>
              \/ call[c].reply.status = 100
              \/ HungUp(c)

====
